---- MODULE Spec2Model ----
(***************************************************************************)
(* Model of network/backend/lnd/lnd.go: the pooled client facade of the    *)
(* lnd backend.  Every process is one caller (goroutine) invoking one      *)
(* Backend operation: a unary operation or SubscribeInvoice.  The state    *)
(* changes at the points where the Go code can block: pool.Get, the        *)
(* remote call, the stream receive and the send on the output channel.     *)
(* log[p] records, in program order, what the operation of p did.          *)
(***************************************************************************)
EXTENDS Integers, Sequences, FiniteSets

\* ------------------------------------------------------------------ bounds
NumProcs == 2          \* concurrent callers
PoolCapacity == 1      \* c.PoolCapacity handed to pool.New
MaxStream == 3         \* messages a subscription stream yields at most
MaxChanCap == 1        \* largest buffer of a caller-supplied output channel
MaxOpts == 2           \* options a caller passes to ListChannels at most

lndDefaultInvoiceExpiry == 3600

Procs == 1..NumProcs
Conns == 1..PoolCapacity

UnaryOps ==
  {"GetWalletBalance", "GetChannelBalance", "ListChannels", "CreateInvoice",
   "GetInvoice", "SendPayment", "DecodePayReq"}
Ops == UnaryOps \cup {"SubscribeInvoice"}

PoolErrs == {"ErrTimeout", "ErrClosed"}       \* errors of pool.Get
RemoteErrs == {"Unavailable", "Canceled"}     \* errors of a unary call or of opening the stream
RecvErrs == {"EOF", "Canceled"}               \* errors of a stream receive
WireValues == {100, 200}                      \* payload of a wire response

Nil == "nil"
NoClient == [stub |-> 0, conn |-> 0]

VARIABLES
  pc,         \* pc[p]: where the operation of p stands
  op,         \* op[p]: the operation p invoked
  clt,        \* clt[p]: the *Client of the operation (stub and leased conn)
  defers,     \* defers[p]: TRUE when `defer clt.Close()` is registered
  ret,        \* ret[p]: what the operation returned, [model, err]
  log,        \* log[p]: the events of the operation, in program order
  idle,       \* the pool: connections available for pool.Get
  chanCap,    \* capacity of the output channels the callers make
  recvd,      \* recvd[p]: wire invoices taken from the stream
  chan,       \* chan[p]: invoices buffered in channelInvoice
  delivered   \* delivered[p]: invoices the consumer took from channelInvoice

VARIABLES
  backend,    \* the Backend value New built: [cfg, logger, pool]
  nodeName,   \* what NodeName() last returned to a caller
  ctxDone,    \* ctxDone[p]: the caller cancelled the ctx of p's operation
  reading,    \* reading[p]: the consumer of p's channel still reads it
  args,       \* the arguments of the traced call
  sent,       \* the wire requests of the traced call, in order
  out         \* the domain model the traced call built

opVars == <<pc, op, clt, defers, ret, log, idle, chanCap, recvd, chan, delivered>>
subVars == <<chanCap, recvd, chan, delivered>>
ctxVars == <<ctxDone, reading>>
dataVars == <<args, sent, out>>
vars == <<opVars, backend, nodeName, ctxVars, dataVars>>

InvoiceValues == {50000}                      \* amount of a streamed wire invoice

\* ---------------------------------------------------------------- helpers
\* One event of an operation: what happened, on which connection or with
\* which invoice index (arg), and with which error (err).
Event(e, a, x) == [ev |-> e, arg |-> a, err |-> x]

\* How many events e the log s holds.
Count(s, e) == Cardinality({i \in 1..Len(s) : s[i].ev = e})

MapInvoices(F(_), s) == [i \in 1..Len(s) |-> F(s[i])]

Evs(s) == [i \in 1..Len(s) |-> s[i].ev]

IsPrefix(s, t) == Len(s) <= Len(t) /\ s = SubSeq(t, 1, Len(s))

\* An error value: the error a library returned (its own cause, no stack of
\* this package), or nil.
Plain(e) == [stack |-> Nil, cause |-> e]
NoErr == Plain(Nil)
NoModel == [type |-> Nil, value |-> 0]

\* Variant: the wrapper is built from the message alone and loses the error
\* it wraps.
WithStackLosesCause(site, e) == [stack |-> site, cause |-> Nil]

\* errors.WithStack(err): a new error holding the call site's stack, with
\* err as its cause.
WithStack(site, e) == [stack |-> site, cause |-> e.cause]

\* -------------------------------------------------------------- translators
\* lookupInvoiceProtoToInvoice: structural copy of the wire invoice.
lookupInvoiceProtoToInvoice(m) == [Index |-> m.AddIndex, Amount |-> m.Value]

ModelType(o) ==
  CASE o = "GetWalletBalance" -> "WalletBalance"
    [] o = "GetChannelBalance" -> "ChannelBalance"
    [] o = "ListChannels" -> "Channels"
    [] o = "CreateInvoice" -> "Invoice"
    [] o = "GetInvoice" -> "Invoice"
    [] o = "SendPayment" -> "Payment"
    [] o = "DecodePayReq" -> "PayReq"

\* The translator each unary operation applies to its wire response.
Translate(o, resp) == [type |-> ModelType(o), value |-> resp]

\* -------------------------------------------------------------------- pool
\* pool.Get hands out a connection that is available; conn.Close gives it back.
PoolGet(c) == idle \ {c}
PoolPut(c) == idle \cup {c}

\* --------------------------------------------------------------- the client
\* Backend.Client, lines 71-74: the stub and the release handle of one
\* facade are bound to the same leased connection.
NewClient(c) == [stub |-> c, conn |-> c]

\* The *config.Network handed to New.
Config == [ID |-> "lnd", PoolCapacity |-> PoolCapacity]

\* New(c, logger): the Backend holds c, the logger tagged with c.ID and the
\* pool made with c.PoolCapacity.
New(c) == [cfg |-> c, logger |-> <<"id", c.ID>>, pool |-> c.PoolCapacity]

\* No call is traced.
NoArgs == [op |-> Nil]

TypeOK ==
  /\ pc \in [Procs -> {"idle", "Client", "rpc", "open", "recv", "send", "done"}]
  /\ op \in [Procs -> Ops \cup {Nil}]
  /\ idle \subseteq Conns
  /\ defers \in [Procs -> BOOLEAN]
  /\ chanCap \in 0..MaxChanCap

\* The state New leaves, before a traced call with arguments a.
Start(a) ==
  /\ pc = [p \in Procs |-> "idle"]
  /\ op = [p \in Procs |-> Nil]
  /\ clt = [p \in Procs |-> NoClient]
  /\ defers = [p \in Procs |-> FALSE]
  /\ ret = [p \in Procs |-> [model |-> NoModel, err |-> NoErr]]
  /\ log = [p \in Procs |-> <<>>]
  /\ idle = Conns
  /\ chanCap \in 0..MaxChanCap
  /\ recvd = [p \in Procs |-> <<>>]
  /\ chan = [p \in Procs |-> <<>>]
  /\ delivered = [p \in Procs |-> <<>>]
  /\ backend = New(Config)
  /\ nodeName = Nil
  /\ ctxDone = [p \in Procs |-> FALSE]
  /\ reading = [p \in Procs |-> TRUE]
  /\ args = a
  /\ sent = <<>>
  /\ out = NoModel

Init == Start(NoArgs)

\* ---------------------------------------------------------------- actions
\* A caller invokes a unary operation: the function logs and enters
\* l.Client(ctx), where pool.Get may block.
Invoke(p) ==
  /\ pc[p] = "idle"
  /\ \E o \in UnaryOps : op' = [op EXCEPT ![p] = o]
  /\ pc' = [pc EXCEPT ![p] = "Client"]
  /\ UNCHANGED <<clt, defers, ret, log, idle, subVars>>

\* A caller invokes SubscribeInvoice with an output channel it made.
Subscribe(p) ==
  /\ pc[p] = "idle"
  /\ op' = [op EXCEPT ![p] = "SubscribeInvoice"]
  /\ pc' = [pc EXCEPT ![p] = "Client"]
  /\ UNCHANGED <<clt, defers, ret, log, idle, subVars>>

\* Variant: the function registered no deferred Close, or lost it.
DeferredClosesNone(p) == <<>>

\* The connections the deferred calls of p's function close when it returns.
DeferredCloses(p) == IF defers[p] THEN <<clt[p].conn>> ELSE <<>>

ReleaseEvents(cs) == [i \in 1..Len(cs) |-> Event("release", cs[i], Nil)]

\* A return statement of p's function: the events `pre` of the statements
\* that lead to it, the result (m, e), then the deferred calls, then the
\* return to the caller.
Return(p, pre, m, e) ==
  /\ ret' = [ret EXCEPT ![p] = [model |-> m, err |-> e]]
  /\ log' = [log EXCEPT ![p] =
               @ \o pre \o ReleaseEvents(DeferredCloses(p))
                 \o <<Event("return", 0, Nil)>>]
  /\ idle' = IF DeferredCloses(p) = <<>> THEN idle
             ELSE PoolPut(DeferredCloses(p)[1])
  /\ pc' = [pc EXCEPT ![p] = "done"]

\* Variant: the error of l.Client is ignored and the operation goes on to
\* its remote call with the nil client.
ClientFailsIgnored(p) ==
  /\ pc[p] = "Client"
  /\ \E e \in PoolErrs :
       log' = [log EXCEPT ![p] =
                 @ \o <<Event("acquireFail", 0, e), Event("call", 0, Nil)>>]
  /\ pc' = [pc EXCEPT ![p] = IF op[p] \in UnaryOps THEN "rpc" ELSE "open"]
  /\ UNCHANGED <<op, clt, defers, ret, idle, subVars>>

\* Variant: the pool's error is wrapped with errors.WithStack before it is
\* returned.
ClientFailsWrapped(p) ==
  /\ pc[p] = "Client"
  /\ \E e \in PoolErrs :
       Return(p, <<Event("acquireFail", 0, e)>>, NoModel,
                   [stack |-> op[p], cause |-> e])
  /\ UNCHANGED <<op, clt, defers, subVars>>

\* l.Client(ctx) fails: pool.Get returned an error, Client returns (nil, err)
\* and the operation returns that error (lines 64-67, 85-87, 44-46).
ClientFails(p) ==
  /\ pc[p] = "Client"
  /\ \E e \in PoolErrs :
       Return(p, <<Event("acquireFail", 0, e)>>, NoModel, Plain(e))
  /\ UNCHANGED <<op, clt, defers, subVars>>

\* Variant: clt.Close() is called at once instead of being deferred, so the
\* remote call goes out on a connection already given back.
UnaryCallCloseFirst(p) ==
  /\ pc[p] = "Client"
  /\ op[p] \in UnaryOps
  /\ \E c \in idle :
       /\ clt' = [clt EXCEPT ![p] = NewClient(c)]
       /\ log' = [log EXCEPT ![p] =
                    @ \o <<Event("acquire", c, Nil),
                           Event("release", c, Nil),
                           Event("call", NewClient(c).stub, Nil)>>]
  /\ pc' = [pc EXCEPT ![p] = "rpc"]
  /\ UNCHANGED <<op, defers, ret, idle, subVars>>

\* Variant: the Backend keeps the client it built last and hands it to the
\* next operation while its first user still holds it.
UnaryCallCached(p) ==
  /\ pc[p] = "Client"
  /\ op[p] \in UnaryOps
  /\ \/ \E q \in Procs \ {p} :
          /\ clt[q] # NoClient
          /\ clt' = [clt EXCEPT ![p] = clt[q]]
          /\ log' = [log EXCEPT ![p] =
                       @ \o <<Event("call", clt[q].stub, Nil)>>]
          /\ idle' = idle
     \/ \E c \in idle :
          /\ \A q \in Procs : clt[q] = NoClient
          /\ idle' = PoolGet(c)
          /\ clt' = [clt EXCEPT ![p] = NewClient(c)]
          /\ log' = [log EXCEPT ![p] =
                       @ \o <<Event("acquire", c, Nil),
                              Event("call", NewClient(c).stub, Nil)>>]
  /\ defers' = [defers EXCEPT ![p] = TRUE]
  /\ pc' = [pc EXCEPT ![p] = "rpc"]
  /\ UNCHANGED <<op, ret, subVars>>

\* A unary operation gets its client: pool.Get leases c, `defer clt.Close()`
\* is registered, the request is built and the remote call is issued on the
\* stub; the call is now in flight.
UnaryCall(p) ==
  /\ pc[p] = "Client"
  /\ op[p] \in UnaryOps
  /\ \E c \in idle :
       /\ idle' = PoolGet(c)
       /\ clt' = [clt EXCEPT ![p] = NewClient(c)]
       /\ log' = [log EXCEPT ![p] =
                    @ \o <<Event("acquire", c, Nil),
                           Event("call", NewClient(c).stub, Nil)>>]
  /\ defers' = [defers EXCEPT ![p] = TRUE]
  /\ pc' = [pc EXCEPT ![p] = "rpc"]
  /\ UNCHANGED <<op, ret, subVars>>

\* Variant: the success path returns the model without running the
\* deferred Close.
UnaryOKKeepsConn(p) ==
  /\ pc[p] = "rpc"
  /\ \E resp \in WireValues :
       ret' = [ret EXCEPT ![p] =
                 [model |-> Translate(op[p], resp), err |-> NoErr]]
  /\ log' = [log EXCEPT ![p] =
               @ \o <<Event("translate", 0, Nil), Event("return", 0, Nil)>>]
  /\ pc' = [pc EXCEPT ![p] = "done"]
  /\ UNCHANGED <<op, clt, defers, idle, subVars>>

\* The remote call succeeds: the response is translated and returned.
UnaryOK(p) ==
  /\ pc[p] = "rpc"
  /\ \E resp \in WireValues :
       Return(p, <<Event("translate", 0, Nil)>>, Translate(op[p], resp), NoErr)
  /\ UNCHANGED <<op, clt, defers, subVars>>

\* Variant: a failed remote call is issued once more before giving up.
UnaryFailsRetry(p) ==
  /\ pc[p] = "rpc"
  /\ \E e \in RemoteErrs :
       IF Count(log[p], "call") < 2
       THEN /\ log' = [log EXCEPT ![p] =
                         @ \o <<Event("callErr", 0, e),
                                Event("call", clt[p].stub, Nil)>>]
            /\ UNCHANGED <<pc, ret, idle>>
       ELSE Return(p, <<Event("callErr", 0, e)>>, NoModel,
                   WithStack(op[p], Plain(e)))
  /\ UNCHANGED <<op, clt, defers, subVars>>

\* Variant: a failed remote call returns the translation of the (empty)
\* response together with the error.
UnaryFailsPartial(p) ==
  /\ pc[p] = "rpc"
  /\ \E e \in RemoteErrs :
       Return(p, <<Event("callErr", 0, e)>>, Translate(op[p], 0),
                   WithStack(op[p], Plain(e)))
  /\ UNCHANGED <<op, clt, defers, subVars>>

\* The remote call fails: return nil, errors.WithStack(err).
UnaryFails(p) ==
  /\ pc[p] = "rpc"
  /\ \E e \in RemoteErrs :
       Return(p, <<Event("callErr", 0, e)>>, NoModel,
                   WithStack(op[p], Plain(e)))
  /\ UNCHANGED <<op, clt, defers, subVars>>

\* Variant: SubscribeInvoice registers `defer clt.Close()` like the unary
\* operations do.
SubscribeOpenDeferClose(p) ==
  /\ pc[p] = "Client"
  /\ op[p] = "SubscribeInvoice"
  /\ \E c \in idle :
       /\ idle' = PoolGet(c)
       /\ clt' = [clt EXCEPT ![p] = NewClient(c)]
       /\ log' = [log EXCEPT ![p] =
                    @ \o <<Event("acquire", c, Nil),
                           Event("open", NewClient(c).stub, Nil)>>]
  /\ defers' = [defers EXCEPT ![p] = TRUE]
  /\ pc' = [pc EXCEPT ![p] = "open"]
  /\ UNCHANGED <<op, ret, subVars>>

\* SubscribeInvoice gets its client and opens the stream on the stub
\* (lines 43-48); no deferred Close is registered.
SubscribeOpen(p) ==
  /\ pc[p] = "Client"
  /\ op[p] = "SubscribeInvoice"
  /\ \E c \in idle :
       /\ idle' = PoolGet(c)
       /\ clt' = [clt EXCEPT ![p] = NewClient(c)]
       /\ log' = [log EXCEPT ![p] =
                    @ \o <<Event("acquire", c, Nil),
                           Event("open", NewClient(c).stub, Nil)>>]
  /\ pc' = [pc EXCEPT ![p] = "open"]
  /\ UNCHANGED <<op, defers, ret, subVars>>

\* clt.SubscribeInvoices returned a stream: enter the receive loop.
StreamOpened(p) ==
  /\ pc[p] = "open"
  /\ pc' = [pc EXCEPT ![p] = "recv"]
  /\ UNCHANGED <<op, clt, defers, ret, log, idle, subVars>>

\* Variant: the error of clt.SubscribeInvoices is ignored and the loop is
\* entered.
StreamOpenFailsIgnored(p) ==
  /\ pc[p] = "open"
  /\ \E e \in RemoteErrs :
       log' = [log EXCEPT ![p] = Append(@, Event("openErr", 0, e))]
  /\ pc' = [pc EXCEPT ![p] = "recv"]
  /\ UNCHANGED <<op, clt, defers, ret, idle, subVars>>

\* clt.SubscribeInvoices failed: return err (lines 49-51).
StreamOpenFails(p) ==
  /\ pc[p] = "open"
  /\ \E e \in RemoteErrs :
       Return(p, <<Event("openErr", 0, e)>>, NoModel, Plain(e))
  /\ UNCHANGED <<op, clt, defers, subVars>>

\* cltInvoices.Recv() yields the next invoice of the stream; the loop goes
\* on to the send of its translation (lines 54, 59).
RecvMsg(p) ==
  /\ pc[p] = "recv"
  /\ Len(recvd[p]) < MaxStream
  /\ \E v \in InvoiceValues :
       recvd' = [recvd EXCEPT ![p] =
                   Append(@, [AddIndex |-> Len(recvd[p]) + 1, Value |-> v])]
  /\ log' = [log EXCEPT ![p] =
               Append(@, Event("recv", Len(recvd[p]) + 1, Nil))]
  /\ pc' = [pc EXCEPT ![p] = "send"]
  /\ UNCHANGED <<op, clt, defers, ret, idle, chanCap, chan, delivered>>

\* Variant: on a receive error the subscription reconnects once instead of
\* returning.
RecvErrReconnect(p) ==
  /\ pc[p] = "recv"
  /\ \E e \in RecvErrs :
       IF Count(log[p], "recvErr") = 0
       THEN /\ log' = [log EXCEPT ![p] = Append(@, Event("recvErr", 0, e))]
            /\ pc' = [pc EXCEPT ![p] = "Client"]
            /\ UNCHANGED <<ret, idle>>
       ELSE Return(p, <<Event("recvErr", 0, e)>>, NoModel, Plain(e))
  /\ UNCHANGED <<op, clt, defers, subVars>>

\* cltInvoices.Recv() fails: return err (lines 55-57).
RecvErr(p) ==
  /\ pc[p] = "recv"
  /\ \E e \in RecvErrs :
       Return(p, <<Event("recvErr", 0, e)>>, NoModel, Plain(e))
  /\ UNCHANGED <<op, clt, defers, subVars>>

\* Variant: the loop keeps sending the invoice it translated first.
PendingFirst(p) == lookupInvoiceProtoToInvoice(recvd[p][1])

\* The invoice the loop is about to send: the translation of the message
\* received last.
Pending(p) == lookupInvoiceProtoToInvoice(recvd[p][Len(recvd[p])])

\* Variant: a non-blocking send (select with default) that drops the invoice
\* when the buffer is full.
SendOrDrop(p) ==
  /\ pc[p] = "send"
  /\ chanCap > 0
  /\ chan' = [chan EXCEPT ![p] =
                IF Len(@) < chanCap THEN Append(@, Pending(p)) ELSE @]
  /\ log' = [log EXCEPT ![p] = Append(@, Event("send", Pending(p).Index, Nil))]
  /\ pc' = [pc EXCEPT ![p] = "recv"]
  /\ UNCHANGED <<op, clt, defers, ret, idle, chanCap, recvd, delivered>>

\* Variant: the send sits in a select with ctx.Done(), and the operation
\* returns the context's error when the buffer is full and the context is
\* cancelled.
SendOrDone(p) ==
  /\ pc[p] = "send"
  /\ chanCap > 0
  /\ IF Len(chan[p]) < chanCap
     THEN /\ chan' = [chan EXCEPT ![p] = Append(@, Pending(p))]
          /\ log' = [log EXCEPT ![p] =
                       Append(@, Event("send", Pending(p).Index, Nil))]
          /\ pc' = [pc EXCEPT ![p] = "recv"]
          /\ UNCHANGED <<ret, idle>>
     ELSE /\ ctxDone[p]
          /\ Return(p, <<>>, NoModel, Plain("Canceled"))
          /\ UNCHANGED chan
  /\ UNCHANGED <<op, clt, defers, chanCap, recvd, delivered>>

\* channelInvoice <- invoice on a buffered channel with room (line 59).
Send(p) ==
  /\ pc[p] = "send"
  /\ chanCap > 0
  /\ Len(chan[p]) < chanCap
  /\ chan' = [chan EXCEPT ![p] = Append(@, Pending(p))]
  /\ log' = [log EXCEPT ![p] = Append(@, Event("send", Pending(p).Index, Nil))]
  /\ pc' = [pc EXCEPT ![p] = "recv"]
  /\ UNCHANGED <<op, clt, defers, ret, idle, chanCap, recvd, delivered>>

\* channelInvoice <- invoice on an unbuffered channel: the send completes
\* when the consumer receives, handing the invoice over directly.
SendHandoff(p) ==
  /\ pc[p] = "send"
  /\ chanCap = 0
  /\ delivered' = [delivered EXCEPT ![p] = Append(@, Pending(p))]
  /\ log' = [log EXCEPT ![p] = Append(@, Event("send", Pending(p).Index, Nil))]
  /\ pc' = [pc EXCEPT ![p] = "recv"]
  /\ UNCHANGED <<op, clt, defers, ret, idle, chanCap, recvd, chan>>

\* The consumer of channelInvoice takes the oldest buffered invoice.
Consume(p) ==
  /\ chan[p] # <<>>
  /\ delivered' = [delivered EXCEPT ![p] = Append(@, Head(chan[p]))]
  /\ chan' = [chan EXCEPT ![p] = Tail(@)]
  /\ UNCHANGED <<pc, op, clt, defers, ret, log, idle, chanCap, recvd>>

\* Variant: the methods have pointer receivers and re-tag the logger with
\* the operation they run.
BackendRelogged(p) == [backend EXCEPT !.logger = <<"op", op[p]>>]

\* The Backend after a step of p's operation. Every method has the value
\* receiver (l Backend) and none assigns to l.cfg, l.logger or l.pool.
BackendAfter(p) == backend

\* NodeName(): return l.cfg.ID.
NodeName(p) ==
  /\ nodeName' = backend.cfg.ID
  /\ backend' = BackendAfter(p)
  /\ UNCHANGED <<opVars, ctxVars, dataVars>>

\* What a step of p's operation leaves alone besides its own variables.
Rest(p) ==
  /\ backend' = BackendAfter(p)
  /\ UNCHANGED <<nodeName, ctxVars, dataVars>>

Next ==
  \E p \in Procs :
    \/ NodeName(p)
    \/ Invoke(p) /\ Rest(p)
    \/ Subscribe(p) /\ Rest(p)
    \/ ClientFails(p) /\ Rest(p)
    \/ UnaryCall(p) /\ Rest(p)
    \/ UnaryOK(p) /\ Rest(p)
    \/ UnaryFails(p) /\ Rest(p)
    \/ SubscribeOpen(p) /\ Rest(p)
    \/ StreamOpened(p) /\ Rest(p)
    \/ StreamOpenFails(p) /\ Rest(p)
    \/ RecvMsg(p) /\ Rest(p)
    \/ RecvErr(p) /\ Rest(p)
    \/ Send(p) /\ Rest(p)
    \/ SendHandoff(p) /\ Rest(p)
    \/ Consume(p) /\ Rest(p)

Spec == Init /\ [][Next]_vars


\* ------------------------------------------------------------ traced call
\* One call of a unary operation followed with its data: the arguments the
\* caller gave, the request put on the wire, the model built from the
\* response.
Caller == 1

ChannelOpts == {"Active", "Inactive", "Public", "Private"}
OptLists == UNION {[1..n -> ChannelOpts] : n \in 0..MaxOpts}
Amounts == {100, 50000}
Descs == {"coffee", ""}
Destinations == {"D1", "D2"}
Encoded == {"lnbc1", "lnbc2"}
Times == {1, 2}                     \* values of time.Now().Unix()
PayReqs ==
  [Destination : Destinations, Amount : Amounts, String : Encoded]

CallArgs ==
  {[op |-> o] : o \in {"GetWalletBalance", "GetChannelBalance"}}
  \cup {[op |-> "ListChannels", opt |-> l] : l \in OptLists}
  \cup {[op |-> "CreateInvoice", amount |-> a, desc |-> d] :
          a \in Amounts, d \in Descs}
  \cup {[op |-> "GetInvoice", RHash |-> h] : h \in Encoded}
  \cup {[op |-> "SendPayment", payreq |-> r] : r \in PayReqs}
  \cup {[op |-> "DecodePayReq", payreq |-> e] : e \in Encoded}

\* options.NewChannelOptions(opt...): the defaults, then every option
\* applied in order; an option sets its own flag.
DefaultChannelOptions ==
  [Active |-> FALSE, Inactive |-> FALSE, Public |-> FALSE, Private |-> FALSE]

RECURSIVE ApplyOptions(_, _)
ApplyOptions(opts, l) ==
  IF l = <<>> THEN opts
  ELSE ApplyOptions([opts EXCEPT ![l[1]] = TRUE], SubSeq(l, 2, Len(l)))

NewChannelOptions(l) == ApplyOptions(DefaultChannelOptions, l)

\* Variant: the active and inactive flags are taken from each other's option.
ListChannelsRequestSwapped(opts) ==
  [ActiveOnly |-> opts.Inactive, InactiveOnly |-> opts.Active,
   PublicOnly |-> opts.Public, PrivateOnly |-> opts.Private]

\* &lnrpc.ListChannelsRequest{...}, lines 135-140.
ListChannelsRequest(opts) ==
  [ActiveOnly |-> opts.Active, InactiveOnly |-> opts.Inactive,
   PublicOnly |-> opts.Public, PrivateOnly |-> opts.Private]

\* Variant: the request is built without the default expiry.
InvoiceRequestNoExpiry(amount, desc, now) ==
  [Value |-> amount, Memo |-> desc, CreationDate |-> now, Expiry |-> 0]

\* &lnrpc.Invoice{...}, lines 171-176.
InvoiceRequest(amount, desc, now) ==
  [Value |-> amount, Memo |-> desc, CreationDate |-> now,
   Expiry |-> lndDefaultInvoiceExpiry]

\* Variant: the request carries the amount of the payment request as well.
SendRequestWithAmount(payreq) ==
  [PaymentRequest |-> payreq.String, Amt |-> payreq.Amount]

\* &lnrpc.SendRequest{PaymentRequest: payreq.String}, line 227.
SendRequest(payreq) == [PaymentRequest |-> payreq.String]

\* The request each unary operation builds from its arguments.
Request(a, now) ==
  CASE a.op = "GetWalletBalance" -> [msg |-> "WalletBalanceRequest"]
    [] a.op = "GetChannelBalance" -> [msg |-> "ChannelBalanceRequest"]
    [] a.op = "ListChannels" -> ListChannelsRequest(NewChannelOptions(a.opt))
    [] a.op = "CreateInvoice" -> InvoiceRequest(a.amount, a.desc, now)
    [] a.op = "GetInvoice" -> [RHashStr |-> a.RHash]
    [] a.op = "SendPayment" -> SendRequest(a.payreq)
    [] a.op = "DecodePayReq" -> [PayReq |-> a.payreq]

\* addInvoiceProtoToInvoice(req, resp): the invoice takes amount, memo,
\* creation date and expiry from the request, the rest from the response.
addInvoiceProtoToInvoice(req, resp) ==
  [Amount |-> req.Value, Description |-> req.Memo,
   CreationDate |-> req.CreationDate, Expiry |-> req.Expiry,
   PaymentRequest |-> resp]

\* sendPaymentProtoToPayment(payreq, resp): the payment takes destination
\* and amount from the caller's payment request, the rest from the response.
sendPaymentProtoToPayment(payreq, resp) ==
  [Destination |-> payreq.Destination, Amount |-> payreq.Amount,
   PaymentPreimage |-> resp]

\* The model a successful call returns.
Model(a, req, resp) ==
  CASE a.op = "CreateInvoice" -> addInvoiceProtoToInvoice(req, resp)
    [] a.op = "SendPayment" -> sendPaymentProtoToPayment(a.payreq, resp)
    [] OTHER -> Translate(a.op, resp)

TracedInvoke(p) ==
  /\ Invoke(p)
  /\ op'[p] = args.op
  /\ Rest(p)

TracedCall(p) ==
  /\ UnaryCall(p)
  /\ \E now \in Times : sent' = Append(sent, Request(args, now))
  /\ backend' = BackendAfter(p)
  /\ UNCHANGED <<nodeName, ctxVars, args, out>>

TracedOK(p) ==
  /\ UnaryOK(p)
  /\ out' = Model(args, sent[Len(sent)], ret'[p].model.value)
  /\ backend' = BackendAfter(p)
  /\ UNCHANGED <<nodeName, ctxVars, args, sent>>

InitData == \E a \in CallArgs : Start(a)

NextData ==
  \/ TracedInvoke(Caller)
  \/ ClientFails(Caller) /\ Rest(Caller)
  \/ TracedCall(Caller)
  \/ TracedOK(Caller)
  \/ UnaryFails(Caller) /\ Rest(Caller)

SpecData == InitData /\ [][NextData]_vars

\* ------------------------------------------------- unary operations alone
\* Callers that run unary operations only. A caller blocked in pool.Get
\* goes on once a connection is available, and a remote call that was
\* issued returns, with a response or with an error: the steps from
\* acquisition on are weakly fair. Whether a caller invokes at all, and
\* whether pool.Get gives up with an error, is left open.
UnaryProgress(p) ==
  (UnaryCall(p) \/ UnaryOK(p) \/ UnaryFails(p)) /\ Rest(p)

NextUnary ==
  \E p \in Procs :
    \/ Invoke(p) /\ Rest(p)
    \/ ClientFails(p) /\ Rest(p)
    \/ UnaryCall(p) /\ Rest(p)
    \/ UnaryOK(p) /\ Rest(p)
    \/ UnaryFails(p) /\ Rest(p)

SpecUnary ==
  Init /\ [][NextUnary]_vars /\ \A p \in Procs : WF_vars(UnaryProgress(p))

\* ------------------------------------------------------------ cancellation
\* The caller cancels the context it passed to the operation of p.
Cancel(p) ==
  /\ pc[p] \notin {"idle", "done"}
  /\ ~ctxDone[p]
  /\ ctxDone' = [ctxDone EXCEPT ![p] = TRUE]
  /\ backend' = BackendAfter(p)
  /\ UNCHANGED <<opVars, nodeName, reading, dataVars>>

\* The consumer of p's output channel stops reading it.
StopReading(p) ==
  /\ op[p] = "SubscribeInvoice"
  /\ reading[p]
  /\ reading' = [reading EXCEPT ![p] = FALSE]
  /\ UNCHANGED <<opVars, backend, nodeName, ctxDone, dataVars>>

\* What a cancelled context makes happen: pool.Get, the remote call, the
\* opening of the stream and Recv take ctx and fail once it is done. The
\* send of line 59 does not take ctx.
Abort(p) ==
  /\ ctxDone[p]
  /\ ClientFails(p) \/ UnaryFails(p) \/ StreamOpenFails(p) \/ RecvErr(p)
  /\ Rest(p)

NextCancel ==
  \E p \in Procs :
    \/ Cancel(p)
    \/ StopReading(p)
    \/ Invoke(p) /\ Rest(p)
    \/ Subscribe(p) /\ Rest(p)
    \/ ClientFails(p) /\ Rest(p)
    \/ UnaryCall(p) /\ Rest(p)
    \/ UnaryOK(p) /\ Rest(p)
    \/ UnaryFails(p) /\ Rest(p)
    \/ SubscribeOpen(p) /\ Rest(p)
    \/ StreamOpened(p) /\ Rest(p)
    \/ StreamOpenFails(p) /\ Rest(p)
    \/ RecvMsg(p) /\ Rest(p)
    \/ RecvErr(p) /\ Rest(p)
    \/ Send(p) /\ Rest(p)
    \/ reading[p] /\ SendHandoff(p) /\ Rest(p)
    \/ reading[p] /\ Consume(p) /\ Rest(p)

\* The consumer of p's channel, as long as it reads, takes what is offered.
Reads(p) ==
  /\ reading[p]
  /\ SendHandoff(p) \/ Consume(p)
  /\ Rest(p)

\* A call given a cancelled context fails, and a send to a channel with
\* room completes: both are steps of the operation's own goroutine. A
\* consumer that has not stopped reading takes what is offered. Nothing is
\* assumed of the remote node otherwise.
SpecCancel ==
  /\ Init
  /\ [][NextCancel]_vars
  /\ \A p \in Procs :
       WF_vars(Abort(p)) /\ WF_vars(Send(p) /\ Rest(p)) /\ WF_vars(Reads(p))

\* ----------------------------------------------------------- observations
Unary(p) == op[p] \in UnaryOps
Sub(p) == op[p] = "SubscribeInvoice"
Returned(p) == pc[p] = "done"
N(p, e) == Count(log[p], e)
ArgsOf(p, e) == {log[p][i].arg : i \in {j \in 1..Len(log[p]) : log[p][j].ev = e}}
ErrsOf(p, e) == {log[p][i].err : i \in {j \in 1..Len(log[p]) : log[p][j].ev = e}}
\* The operation of p is in a remote call or in its stream loop.
Using(p) == pc[p] \in {"rpc", "open", "recv", "send"}
\* Everything the loop has put on the output channel, oldest first.
Placed(p) == delivered[p] \o chan[p]
Translated(p) == MapInvoices(lookupInvoiceProtoToInvoice, recvd[p])

OkPath == <<"acquire", "call", "translate", "release", "return">>
ErrPath == <<"acquire", "call", "callErr", "release", "return">>

\* ------------------------------------------------------------------ claims

\* C1: a unary operation whose acquisition succeeded has, when it returns,
\* performed exactly one release, on the connection it acquired, after a
\* successful remote call as well as after a failed one; at no moment has
\* it released twice.
C1_ExactlyOneRelease ==
  \A p \in Procs :
    Unary(p) /\ N(p, "acquire") = 1 =>
      /\ N(p, "release") <= 1
      /\ Returned(p) =>
           /\ N(p, "release") = 1
           /\ ArgsOf(p, "release") = ArgsOf(p, "acquire")
           /\ N(p, "translate") + N(p, "callErr") = 1

C1_Witness ==
  \E p, q \in Procs :
    /\ Unary(p) /\ Returned(p) /\ N(p, "translate") = 1 /\ N(p, "release") = 1
    /\ Unary(q) /\ Returned(q) /\ N(q, "callErr") = 1 /\ N(q, "release") = 1

\* C2: a unary operation whose acquisition failed issues no remote call and
\* performs no release, and returns.
C2_NoCallNoReleaseOnAcquireFailure ==
  \A p \in Procs :
    Unary(p) /\ N(p, "acquireFail") > 0 =>
      /\ N(p, "call") = 0
      /\ N(p, "release") = 0
      /\ Returned(p)
      /\ clt[p] = NoClient

C2_Witness ==
  \E p \in Procs :
    Unary(p) /\ Returned(p) /\ N(p, "acquireFail") = 1 /\ ret[p].err \in {Plain(e) : e \in PoolErrs}

\* C3: every operation that acquired a connection, SubscribeInvoice
\* included, has released it once it has returned, so that the pool has no
\* outstanding lease after all operations returned.
C3_EveryFacadeReleased ==
  /\ \A p \in Procs :
       Returned(p) /\ N(p, "acquire") = 1 => N(p, "release") = 1
  /\ (\A p \in Procs : Returned(p)) => idle = Conns

\* C4: the output channel receives the translations of the messages the
\* stream yielded, each once and in stream order; when SubscribeInvoice
\* returns the receive error E, all of them have been sent and the error
\* returned is E.
C4_StreamOrder ==
  \A p \in Procs :
    Sub(p) =>
      /\ IsPrefix(Placed(p), Translated(p))
      /\ Returned(p) /\ N(p, "recvErr") > 0 =>
           /\ Placed(p) = Translated(p)
           /\ N(p, "send") = Len(recvd[p])
           /\ {Plain(e) : e \in ErrsOf(p, "recvErr")} = {ret[p].err}
           /\ ret[p].model = NoModel

C4_Witness ==
  \E p \in Procs :
    /\ Sub(p) /\ Returned(p) /\ ret[p].err = Plain("EOF")
    /\ Len(recvd[p]) = 2
    /\ Len(delivered[p]) = 2

\* C5: the messages taken from the stream exceed those placed on the
\* channel by 1 exactly while the loop is in the send, by 0 otherwise; the
\* buffer never exceeds its capacity; as long as the consumer has read
\* nothing, the loop has taken at most capacity + 1 messages; no message
\* is dropped or reordered.
C5_Backpressure ==
  \A p \in Procs :
    Sub(p) =>
      /\ Len(recvd[p]) - Len(Placed(p)) = (IF pc[p] = "send" THEN 1 ELSE 0)
      /\ Len(chan[p]) <= chanCap
      /\ delivered[p] = <<>> => Len(recvd[p]) <= chanCap + 1
      /\ Placed(p) \o (IF pc[p] = "send" THEN <<Pending(p)>> ELSE <<>>)
           = Translated(p)

C5_Witness ==
  \E p \in Procs :
    /\ pc[p] = "send"
    /\ chanCap > 0
    /\ Len(chan[p]) = chanCap
    /\ delivered[p] = <<>>
    /\ Len(recvd[p]) = chanCap + 1
    /\ Len(recvd[p]) < MaxStream

\* The phase of a subscription: 1 Connecting, 2 Streaming, 3 Terminated.
Phase(p) ==
  CASE pc[p] = "idle" -> 0
    [] pc[p] \in {"Client", "open"} -> 1
    [] pc[p] \in {"recv", "send"} -> 2
    [] pc[p] = "done" -> 3
    [] OTHER -> 4

C6_Step(p) ==
  /\ Phase(p)' >= Phase(p)
  /\ Returned(p) => Returned(p)' /\ log'[p] = log[p] /\ ret'[p] = ret[p]
                      /\ recvd'[p] = recvd[p]
  /\ N(p, "recvErr")' > N(p, "recvErr") =>
       /\ N(p, "recvErr")' = 1
       /\ Returned(p)'
       /\ {Plain(e) : e \in ErrsOf(p, "recvErr")'} = {ret'[p].err}
  /\ N(p, "acquire")' <= 1
  /\ N(p, "open")' <= 1

\* C6: SubscribeInvoice ends on the first receive error and returns exactly
\* that error; once it has returned it receives, sends, acquires and opens
\* nothing more; it acquires and opens at most once; its phases Connecting
\* (1), Streaming (2), Terminated (3) only advance in this order, never
\* back (a failed acquisition or a failed open ends it from Connecting).
C6_TerminatesOnFirstError ==
  [][\A p \in Procs : Sub(p)' => C6_Step(p)]_vars

C6_Witness ==
  \E p \in Procs :
    /\ Sub(p) /\ Returned(p) /\ ret[p].err = Plain("Canceled")
    /\ N(p, "recvErr") = 1
    /\ N(p, "recv") >= 1

\* C7: SubscribeInvoice acquires at most one facade and never releases it:
\* not between messages, and not when it returns; its connection stays out
\* of the pool.
C7_SubscriptionNeverReleases ==
  \A p \in Procs :
    Sub(p) =>
      /\ N(p, "acquire") <= 1
      /\ N(p, "release") = 0
      /\ N(p, "acquire") = 1 => clt[p].conn \notin idle

C7_Witness ==
  \E p \in Procs :
    /\ Sub(p) /\ Returned(p) /\ N(p, "recv") = 2 /\ N(p, "recvErr") = 1
    /\ N(p, "release") = 0
    /\ clt[p].conn \notin idle

\* C8: a unary operation whose acquisition succeeded does acquire, call,
\* translate (on success only), release, return, in this order; the call is
\* in flight only while the connection is leased.
C8_UnaryLifecycle ==
  \A p \in Procs :
    Unary(p) /\ N(p, "acquireFail") = 0 =>
      /\ \/ IsPrefix(Evs(log[p]), OkPath)
         \/ IsPrefix(Evs(log[p]), ErrPath)
      /\ pc[p] = "rpc" =>
           /\ clt[p].conn \notin idle
           /\ ArgsOf(p, "call") = {clt[p].conn}
      /\ Returned(p) => Evs(log[p]) \in {OkPath, ErrPath}
      /\ Returned(p) /\ ret[p].err = NoErr => Evs(log[p]) = OkPath

C8_Witness ==
  \E p \in Procs :
    Unary(p) /\ Returned(p) /\ Evs(log[p]) = OkPath /\ clt[p].conn \in idle

\* C9: a unary operation whose acquisition succeeded issues exactly one
\* remote call: one as soon as it holds the connection, and no second one,
\* not even after a failed call.
C9_ExactlyOneCall ==
  \A p \in Procs :
    Unary(p) =>
      /\ N(p, "call") <= 1
      /\ N(p, "acquire") = 1 => N(p, "call") = 1
      /\ N(p, "call") = 1 => N(p, "acquire") = 1

C9_Witness ==
  \E p \in Procs :
    Unary(p) /\ Returned(p) /\ N(p, "callErr") = 1 /\ N(p, "call") = 1

\* C10: no connection is used by two operations at once, and every
\* operation issues its remote calls and opens its stream only on the
\* connection it acquired itself.
C10_NeverShared ==
  /\ \A p, q \in Procs :
       p # q /\ Using(p) /\ Using(q) =>
         /\ clt[p].conn # clt[q].conn
         /\ clt[p].stub # clt[q].stub
  /\ \A p \in Procs :
       /\ Using(p) => clt[p].stub \notin idle
       /\ ArgsOf(p, "call") \cup ArgsOf(p, "open") \subseteq ArgsOf(p, "acquire")
       /\ clt[p].stub = clt[p].conn

C10_Witness ==
  \E p, q \in Procs :
    /\ p # q
    /\ Using(p)
    /\ pc[q] = "Client"
    /\ clt[p].conn \notin idle
    /\ idle = {}

\* The remote failures the operation of p met, in its log.
RemoteFailures(p) ==
  ErrsOf(p, "callErr") \cup ErrsOf(p, "openErr") \cup ErrsOf(p, "recvErr")
NFailures(p) == N(p, "callErr") + N(p, "openErr") + N(p, "recvErr")

\* C11 as stated: whenever a unary call, the opening of the stream or a
\* receive fails, the operation returns an error that wraps the failure
\* with the call site (a stack) and keeps the failure as its cause.
C11_EveryRemoteErrorWrapped ==
  \A p \in Procs :
    Returned(p) /\ NFailures(p) > 0 =>
      /\ ret[p].err.stack # Nil
      /\ {ret[p].err.cause} = RemoteFailures(p)

\* C11 amended: a failed unary call returns errors.WithStack of the failure:
\* the stack of the operation's call site, the failure as cause; a failed
\* opening of the stream and a failed receive return the failure itself,
\* with no stack; in all three cases the failed call is the last call of
\* the operation (no retry).
C11_UnaryWrappedStreamPlain ==
  \A p \in Procs :
    /\ N(p, "call") <= 1 /\ N(p, "open") <= 1 /\ NFailures(p) <= 1
    /\ NFailures(p) > 0 =>
         /\ Returned(p)
         /\ {ret[p].err.cause} = RemoteFailures(p)
         /\ ret[p].err.stack = (IF N(p, "callErr") = 1 THEN op[p] ELSE Nil)
         /\ Evs(log[p])[Len(log[p])] = "return"
         /\ N(p, "recv") = N(p, "send")

C11_Witness ==
  \E p, q \in Procs :
    /\ Unary(p) /\ Returned(p) /\ N(p, "callErr") = 1
    /\ ret[p].err = [stack |-> op[p], cause |-> "Unavailable"]
    /\ Sub(q) /\ Returned(q) /\ N(q, "recvErr") = 1
    /\ ret[q].err = Plain("EOF")

\* C12: when acquisition fails, an operation (unary or SubscribeInvoice)
\* returns the pool's error itself, not wrapped, with no model, after one
\* acquisition attempt.
C12_PoolErrorUnchanged ==
  \A p \in Procs :
    N(p, "acquireFail") > 0 =>
      /\ N(p, "acquireFail") = 1
      /\ N(p, "acquire") = 0
      /\ Returned(p)
      /\ {ret[p].err} = {Plain(e) : e \in ErrsOf(p, "acquireFail")}
      /\ ret[p].model = NoModel
      /\ Evs(log[p]) = <<"acquireFail", "return">>

C12_Witness ==
  \E p, q \in Procs :
    /\ Sub(p) /\ Returned(p) /\ ret[p].err = Plain("ErrClosed")
    /\ Unary(q) /\ Returned(q) /\ ret[q].err = Plain("ErrTimeout")

\* C13: a unary operation that returned gave either a model and no error,
\* or an error and no model.
C13_ModelXorError ==
  \A p \in Procs :
    Unary(p) /\ Returned(p) =>
      /\ (ret[p].model # NoModel) # (ret[p].err # NoErr)
      /\ ret[p].model # NoModel <=> N(p, "translate") = 1

C13_Witness ==
  \E p, q \in Procs :
    /\ Unary(p) /\ Returned(p) /\ ret[p].model # NoModel /\ ret[p].err = NoErr
    /\ Unary(q) /\ Returned(q) /\ ret[q].model = NoModel /\ ret[q].err # NoErr
    /\ N(q, "callErr") = 1

\* C20: when SubscribeInvoice acquired a facade and opening the stream
\* failed, it has returned the open error, and it has received nothing from
\* a stream and sent nothing on the output channel.
C20_OpenErrorReturnsAtOnce ==
  \A p \in Procs :
    Sub(p) /\ N(p, "openErr") > 0 =>
      /\ Returned(p)
      /\ {ret[p].err} = {Plain(e) : e \in ErrsOf(p, "openErr")}
      /\ N(p, "recv") = 0 /\ N(p, "recvErr") = 0 /\ N(p, "send") = 0
      /\ recvd[p] = <<>> /\ chan[p] = <<>> /\ delivered[p] = <<>>
      /\ Evs(log[p]) = <<"acquire", "open", "openErr", "return">>

C20_Witness ==
  \E p \in Procs :
    /\ Sub(p) /\ Returned(p) /\ N(p, "acquire") = 1 /\ N(p, "openErr") = 1
    /\ ret[p].err = Plain("Unavailable")

\* What belongs to the operation of q alone.
Local(q) ==
  <<pc[q], op[q], clt[q], defers[q], ret[q], log[q], recvd[q], chan[q],
    delivered[q]>>

\* C15: no step of any operation (NodeName, a unary operation,
\* SubscribeInvoice, Client) changes the Backend's cfg, logger or pool
\* reference, and a step changes the variables of one operation at most:
\* what two operations share is the pool alone.
C15_BackendImmutable ==
  [][/\ backend' = backend
     /\ backend.cfg = Config
     /\ \A p, q \in Procs :
          Local(p)' # Local(p) /\ Local(q)' # Local(q) => p = q]_vars

C15_Witness ==
  /\ backend = New(Config)
  /\ nodeName = "lnd"
  /\ \E p, q \in Procs :
       /\ Unary(p) /\ Returned(p) /\ ret[p].err = NoErr
       /\ Sub(q) /\ pc[q] = "recv" /\ Len(delivered[q]) > 0

\* The traced call is the operation o.
Traced(o) == args.op = o /\ op[Caller] = o
TracedSent == N(Caller, "call") >= 1
TracedOk == Returned(Caller) /\ ret[Caller].err = NoErr
Passed(o) == \E i \in 1..Len(args.opt) : args.opt[i] = o

\* C16: the request of ListChannels carries the options record built from
\* the defaults and the options passed: each of the four flags is true
\* exactly when its option was passed; with no option all four are false,
\* with the active option alone only ActiveOnly is true.
C16_ListChannelsFlags ==
  Traced("ListChannels") /\ TracedSent =>
    /\ Len(sent) = 1
    /\ sent[1] = [ActiveOnly |-> Passed("Active"),
                  InactiveOnly |-> Passed("Inactive"),
                  PublicOnly |-> Passed("Public"),
                  PrivateOnly |-> Passed("Private")]
    /\ args.opt = <<>> =>
         sent[1] = [ActiveOnly |-> FALSE, InactiveOnly |-> FALSE,
                    PublicOnly |-> FALSE, PrivateOnly |-> FALSE]
    /\ args.opt = <<"Active">> =>
         sent[1] = [ActiveOnly |-> TRUE, InactiveOnly |-> FALSE,
                    PublicOnly |-> FALSE, PrivateOnly |-> FALSE]

C16_Witness ==
  /\ Traced("ListChannels") /\ TracedOk
  /\ args.opt = <<"Active">>
  /\ sent = <<[ActiveOnly |-> TRUE, InactiveOnly |-> FALSE,
               PublicOnly |-> FALSE, PrivateOnly |-> FALSE]>>

\* C17: SendPayment of a payment request (D, A, S) makes one remote call,
\* whose request holds S and no other field; when it succeeds the Payment
\* has destination D and amount A, whatever the response holds.
C17_SendPaymentCarriesString ==
  Traced("SendPayment") =>
    /\ N(Caller, "call") <= 1 /\ Len(sent) = N(Caller, "call")
    /\ TracedSent => sent[1] = [PaymentRequest |-> args.payreq.String]
    /\ TracedOk =>
         /\ N(Caller, "call") = 1
         /\ out.Destination = args.payreq.Destination
         /\ out.Amount = args.payreq.Amount

C17_Witness ==
  /\ Traced("SendPayment") /\ TracedOk
  /\ args.payreq = [Destination |-> "D1", Amount |-> 100, String |-> "lnbc1"]
  /\ sent = <<[PaymentRequest |-> "lnbc1"]>>
  /\ out.Destination = "D1" /\ out.Amount = 100
  /\ out.PaymentPreimage = 200

\* C18: CreateInvoice(amount, desc) sends a request with that amount, desc
\* as memo and the expiry 3600; when it succeeds the Invoice has that
\* amount, that description and the expiry 3600, whatever the response
\* holds.
C18_CreateInvoiceFromRequest ==
  Traced("CreateInvoice") =>
    /\ TracedSent =>
         /\ Len(sent) = 1
         /\ sent[1].Value = args.amount
         /\ sent[1].Memo = args.desc
         /\ sent[1].Expiry = 3600
    /\ TracedOk =>
         /\ out.Amount = args.amount
         /\ out.Description = args.desc
         /\ out.Expiry = 3600

C18_Witness ==
  /\ Traced("CreateInvoice") /\ TracedOk
  /\ args.amount = 50000 /\ args.desc = "coffee"
  /\ sent[1].Value = 50000 /\ sent[1].Memo = "coffee"
  /\ out.Amount = 50000 /\ out.Description = "coffee" /\ out.Expiry = 3600
  /\ out.PaymentRequest = 100

\* No operation is under way.
Quiescent == \A p \in Procs : pc[p] \in {"idle", "done"}

\* C19: with callers that run unary operations only, remote calls that
\* return and fair scheduling, every unary operation that was invoked
\* returns, a caller blocked in acquisition with the pool empty gets past
\* it, and from some moment on no operation is under way and every
\* connection of the pool is available.
C19_UnaryTerminates ==
  /\ \A p \in Procs : (pc[p] = "Client") ~> Returned(p)
  /\ \A p \in Procs :
       (pc[p] = "Client" /\ idle = {}) ~> (pc[p] # "Client")
  /\ <>[](Quiescent /\ idle = Conns)

C19_Witness ==
  /\ idle = Conns
  /\ \A p \in Procs :
       /\ Returned(p) /\ N(p, "acquire") = 1 /\ N(p, "release") = 1
       /\ ArgsOf(p, "acquire") = {1}

\* The send of p cannot complete unless the consumer takes an invoice.
Stalled(p) ==
  /\ pc[p] = "send"
  /\ chanCap = 0 \/ Len(chan[p]) = chanCap

ReturnedError(p) == Returned(p) /\ ret[p].err # NoErr

\* C14 as stated: once the context of a SubscribeInvoice is cancelled, the
\* operation eventually returns with an error, wherever it stands:
\* acquiring, receiving, or blocked in the send to a channel whose consumer
\* stopped reading.
C14_CancelAlwaysReturns ==
  \A p \in Procs : (Sub(p) /\ ctxDone[p]) ~> ReturnedError(p)

\* C14 amended: once the context of a SubscribeInvoice is cancelled, the
\* operation eventually returns with an error or comes to be blocked in the
\* send to an output channel whose consumer has stopped reading; and while
\* it is blocked in that send, it stays there, cancelled or not.
C14_CancelReturnsUnlessSending ==
  /\ \A p \in Procs :
       (Sub(p) /\ ctxDone[p]) ~>
         (ReturnedError(p) \/ (Stalled(p) /\ ~reading[p]))
  /\ [][\A p \in Procs :
          Stalled(p) /\ ~reading[p] =>
            pc'[p] = "send" /\ ret'[p] = ret[p]]_vars

C14_Witness ==
  \E p, q \in Procs :
    /\ Sub(p) /\ ctxDone[p] /\ ~reading[p] /\ Stalled(p)
    /\ Sub(q) /\ ctxDone[q] /\ ReturnedError(q) /\ N(q, "acquireFail") = 1
====
